---- MODULE Spec2Model ----
(***************************************************************************)
(* Risk-gated order lifecycle (services/engine_astra/oms.py,               *)
(* risk_manager.py), cost engine (shared/costs.py) and verdict synthesizer *)
(* (services/engine_astra/rules_engine.py) of project_gyan.                *)
(*                                                                         *)
(* Money is fixed point: every amount (price, stop, cost, pnl, capital) is *)
(* an integer number of thousandths of a rupee, so 100.00 is 100000 and    *)
(* Python's round(x, 2) is rounding to a multiple of 10.  Rates of the     *)
(* cost engine are integers in units of 1e-8.  The arithmetic is exact:    *)
(* the representation error of a float (1e-12 of a rupee) is not modelled, *)
(* and an amount exactly half way between two hundredths rounds to the     *)
(* even one; no input of the model produces such an amount.                *)
(*                                                                         *)
(* Spec       the handlers of the OMS run one at a time                    *)
(* SpecRound  one order placed and closed, all instrument types            *)
(* SpecConc   two callers interleaved at the Redis GETs and SETs           *)
(* SpecTrail  update_trailing_stop fed its own result                      *)
(* SpecRules  analyze_stock over its inputs                                *)
(* SpecRisk   calculate_position_size and check_entry_allowance on their   *)
(*            own                                                          *)
(* SpecFail   place_order and close_trade with Redis calls that raise      *)
(* SpecGate   the order handlers, each place_order kept with its arguments *)
(* SpecLedger the handlers over prices quoted to a tenth of a paisa        *)
(* SpecBeat   the nightly schedule of services/worker_chakra/tasks.py      *)
(***************************************************************************)
EXTENDS Integers, Sequences, FiniteSets, TLC

VARIABLES
    capital,    \* Redis key bot:capital
    active,     \* Redis key bot:active ("true" / "false")
    trades,     \* Redis key bot:trades, the JSON list, head first
    nextId,     \* number of uuid4 values drawn so far, plus one
    last,       \* the most recent call and what it returned
    procs,      \* concurrent callers: program counter and locals of each
    start,      \* concurrent callers: the store when the callers were released
    rs_in,      \* analyze_stock: the inputs of the evaluation
    rs_out,     \* analyze_stock: the returned verdicts
    ts_in,      \* update_trailing_stop: the inputs of the latest call
    ts_stop,    \* update_trailing_stop: the stop fed back call after call
    rm_in,      \* RiskManager gate or sizing: the arguments of the call
    rm_out,     \* RiskManager gate or sizing: the returned value
    fault,      \* number of handler runs in which a store call failed
    schedule,   \* Chakra beat: the periodic tasks registered
    clock,      \* Chakra beat: minutes since midnight of the first night
    astra_q     \* queue astra_q: the task messages sent, oldest first

omsVars == <<capital, active, trades, nextId, last>>
rulesVars == <<rs_in, rs_out>>
trailVars == <<ts_in, ts_stop>>
riskVars == <<rm_in, rm_out>>
beatVars == <<schedule, clock, astra_q>>
vars == <<capital, active, trades, nextId, last, procs, start, rs_in, rs_out, ts_in, ts_stop, rm_in, rm_out, fault, beatVars>>

(***************************************************************************)
(* Bounds of the model.                                                    *)
(***************************************************************************)
MaxTrades == 2

(***************************************************************************)
(* Arithmetic helpers.                                                     *)
(***************************************************************************)
Abs(x) == IF x < 0 THEN -x ELSE x

Max(a, b) == IF a > b THEN a ELSE b

\* Python int(): truncation toward zero of n / d, d > 0
Trunc(n, d) == IF n >= 0 THEN n \div d ELSE -((-n) \div d)

\* Python round(x, 2) on thousandths: nearest multiple of 10, ties to even
Round2(x) ==
    LET q == x \div 10
        r == x % 10
    IN  IF r < 5 THEN q * 10
        ELSE IF r > 5 THEN (q + 1) * 10
        ELSE IF q % 2 = 0 THEN q * 10 ELSE (q + 1) * 10

RECURSIVE SumSeq(_)
SumSeq(s) == IF s = <<>> THEN 0 ELSE Head(s) + SumSeq(Tail(s))

(***************************************************************************)
(* shared/costs.py                                                         *)
(***************************************************************************)
InstrumentTypes ==
    {"EQUITY_INTRADAY", "EQUITY_DELIVERY", "FUTURES", "OPTIONS",
     "COMMODITY_FUTURES", "COMMODITY_OPTIONS", "CURRENCY_FUTURES"}

\* the substring tests  "X" in instrument_type
HasEquity(i) == i \in {"EQUITY_INTRADAY", "EQUITY_DELIVERY"}
HasCommodity(i) == i \in {"COMMODITY_FUTURES", "COMMODITY_OPTIONS"}
HasCurrency(i) == i \in {"CURRENCY_FUTURES"}
HasFutures(i) == i \in {"FUTURES", "COMMODITY_FUTURES", "CURRENCY_FUTURES"}
HasOptions(i) == i \in {"OPTIONS", "COMMODITY_OPTIONS"}
HasIntraday(i) == i \in {"EQUITY_INTRADAY"}

\* STT / CTT rate, 1e-8 units
TaxRate(side, i) ==
    IF i = "EQUITY_INTRADAY" THEN (IF side = "SELL" THEN 25000 ELSE 0)
    ELSE IF i = "EQUITY_DELIVERY" THEN 100000
    ELSE IF i = "FUTURES" THEN (IF side = "SELL" THEN 12500 ELSE 0)
    ELSE IF i = "OPTIONS" THEN (IF side = "SELL" THEN 62500 ELSE 0)
    ELSE IF i = "COMMODITY_FUTURES" THEN (IF side = "SELL" THEN 10000 ELSE 0)
    ELSE IF i = "COMMODITY_OPTIONS" THEN (IF side = "SELL" THEN 50000 ELSE 0)
    ELSE 0

\* exchange transaction charge rate, 1e-8 units
ExchRate(i) ==
    IF HasEquity(i) THEN 3250
    ELSE IF i = "FUTURES" THEN 1900
    ELSE IF i = "OPTIONS" THEN 53000
    ELSE IF HasCommodity(i) THEN 1500
    ELSE IF HasCurrency(i) THEN 900
    ELSE 0

\* GST: 18% on brokerage (0) + exchange charge, 1e-8 units
GstRate(i) == (ExchRate(i) * 18) \div 100

\* stamp duty rate, buy side only, 1e-8 units
StampRate(side, i) ==
    IF side = "BUY"
    THEN IF i = "EQUITY_DELIVERY" THEN 15000
         ELSE IF i = "EQUITY_INTRADAY" THEN 3000
         ELSE IF HasFutures(i) THEN 2000
         ELSE IF HasOptions(i) THEN 3000
         ELSE 0
    ELSE 0

\* brokerage 0, SEBI charge 0.000001 = 100e-8
TotalRate(side, i) == TaxRate(side, i) + ExchRate(i) + GstRate(i) + 100 + StampRate(side, i)

\* round(turnover * rate / 1e8, 2): turnover in thousandths, the product is
\* formed digit by digit in base 1000 so that no intermediate exceeds 32 bits
calculate_transaction_costs(price, quantity, side, i) ==
    LET turnover == price * quantity
        rate == TotalRate(side, i)
        t0 == turnover % 1000
        t1 == (turnover \div 1000) % 1000
        t2 == turnover \div 1000000
        r0 == rate % 1000
        r1 == rate \div 1000
        p0 == t0 * r0
        k1 == t1 * r0 + t0 * r1 + (p0 \div 1000)
        k2 == t2 * r0 + t1 * r1 + (k1 \div 1000)
        k3 == t2 * r1 + (k2 \div 1000)
        c0 == p0 % 1000
        c1 == k1 % 1000
        c2 == k2 % 1000
        \* k3 whole hundredths, remainder 0.c2 c1 c0 of a hundredth
        up == \/ c2 > 500
              \/ c2 = 500 /\ (c1 > 0 \/ c0 > 0)
              \/ c2 = 500 /\ c1 = 0 /\ c0 = 0 /\ k3 % 2 = 1
    IN  10 * (IF up THEN k3 + 1 ELSE k3)

(***************************************************************************)
(* services/engine_astra/risk_manager.py                                   *)
(***************************************************************************)
\* max_drawdown_pct = 0.05 and daily_loss_limit = 0.02, in percent
MaxDdPct == 5
DailyLimitPct == 2

\* the same with the two checks in the other order
check_entry_allowance_dailyFirst(current_capital, start_capital, daily_pnl) ==
    IF daily_pnl * 100 < -(current_capital * DailyLimitPct)
    THEN [allowed |-> FALSE, reason |-> "Daily Loss Limit Hit"]
    ELSE IF (start_capital - current_capital) * 100 > MaxDdPct * start_capital
    THEN [allowed |-> FALSE, reason |-> "Total Drawdown Breach"]
    ELSE [allowed |-> TRUE, reason |-> "OK"]

\* dd = (start - current) / start > 0.05 ; daily_pnl < -(current * 0.02)
check_entry_allowance(current_capital, start_capital, daily_pnl) ==
    IF (start_capital - current_capital) * 100 > MaxDdPct * start_capital
    THEN [allowed |-> FALSE, reason |-> "Total Drawdown Breach"]
    ELSE IF daily_pnl * 100 < -(current_capital * DailyLimitPct)
    THEN [allowed |-> FALSE, reason |-> "Daily Loss Limit Hit"]
    ELSE [allowed |-> TRUE, reason |-> "OK"]

\* the same without the minimum of one share
calculate_position_size_noMin(cap, price, sl) ==
    LET risk_per_share == Abs(price - sl)
    IN  IF risk_per_share = 0 THEN 0
        ELSE Trunc(cap, 100 * risk_per_share)

\* risk_per_trade = 0.01:  int((capital * 0.01) / |price - sl|), at least 1
calculate_position_size(cap, price, sl) ==
    LET risk_per_share == Abs(price - sl)
    IN  IF risk_per_share = 0 THEN 0
        ELSE Max(1, Trunc(cap, 100 * risk_per_share))

TrailMultiplier(regime) ==
    IF regime = "HIGH_VOL_CRASH" \/ regime = "VOLATILE_COMMODITY" THEN 1
    ELSE IF regime = "BULL_TREND" THEN 3
    ELSE 2

\* the same without the ratchet: the new level is returned even when lower
update_trailing_stop_noRatchet(entry_price, current_price, current_sl, atr, regime) ==
    current_price - (atr * TrailMultiplier(regime))

\* the same with the stop moved half of the way to the new level
update_trailing_stop_halfway(entry_price, current_price, current_sl, atr, regime) ==
    LET new_sl == current_price - (atr * TrailMultiplier(regime))
    IN  IF new_sl > current_sl THEN current_sl + ((new_sl - current_sl + 1) \div 2)
        ELSE current_sl

update_trailing_stop(entry_price, current_price, current_sl, atr, regime) ==
    LET new_sl == current_price - (atr * TrailMultiplier(regime))
    IN  IF new_sl > current_sl THEN new_sl ELSE current_sl

(***************************************************************************)
(* services/engine_astra/oms.py : the store and the pure part of each      *)
(* handler.  A trade is the dict built by place_order; exit_price and pnl  *)
(* are absent until close_trade sets them and read as 0 (t.get('pnl', 0)). *)
(***************************************************************************)
InitialCapital == 10000000
StartCap == 10000000

\* get_status: daily_pnl = sum of pnl over the CLOSED trades of the log
get_status(act, cap, trs) ==
    [active |-> act,
     capital |-> cap,
     open_positions |-> Cardinality({i \in 1..Len(trs) : trs[i].status = "OPEN"}),
     daily_pnl |-> SumSeq([i \in 1..Len(trs) |->
                      IF trs[i].status = "CLOSED" THEN trs[i].pnl ELSE 0]),
     trades_count |-> Len(trs)]

\* the same with the 20% margin for every instrument type
MarginNeeded_allIntraday(price, quantity, i) == (price * quantity * 2) \div 10

\* margin_needed: full notional, or 20% of it when "INTRADAY" is in the type
MarginNeeded(price, quantity, i) ==
    IF ~HasIntraday(i) THEN price * quantity ELSE (price * quantity * 2) \div 10

NoTrade == [id |-> 0]

\* the same without the risk manager's gate
PlaceDecision_noRiskGate(cap, daily_pnl, id, ticker, direction, price, sl, i) ==
    LET quantity == calculate_position_size(cap, price, sl)
        est_cost == calculate_transaction_costs(price, quantity, direction, i)
        margin_needed == MarginNeeded(price, quantity, i)
    IN  IF quantity < 1
        THEN [status |-> "failed", reason |-> "Calculated Quantity is 0", trade |-> NoTrade]
        ELSE IF margin_needed + est_cost > cap
        THEN [status |-> "failed", reason |-> "Insufficient Fund", trade |-> NoTrade]
        ELSE [status |-> "success", reason |-> "",
              trade |-> [id |-> id, ticker |-> ticker, direction |-> direction,
                         entry_price |-> price, quantity |-> quantity, sl |-> sl,
                         tp |-> 0, status |-> "OPEN", instrument |-> i,
                         est_cost |-> est_cost, exit_price |-> 0, pnl |-> 0]]

\* the same with the funds check ahead of the risk manager's gate
PlaceDecision_fundsFirst(cap, daily_pnl, id, ticker, direction, price, sl, i) ==
    LET allow == check_entry_allowance(cap, StartCap, daily_pnl)
        quantity == calculate_position_size(cap, price, sl)
        est_cost == calculate_transaction_costs(price, quantity, direction, i)
        margin_needed == MarginNeeded(price, quantity, i)
    IN  IF quantity >= 1 /\ margin_needed + est_cost > cap
        THEN [status |-> "failed", reason |-> "Insufficient Fund", trade |-> NoTrade]
        ELSE IF ~allow.allowed
        THEN [status |-> "failed", reason |-> "Risk Block", trade |-> NoTrade]
        ELSE IF quantity < 1
        THEN [status |-> "failed", reason |-> "Calculated Quantity is 0", trade |-> NoTrade]
        ELSE [status |-> "success", reason |-> "",
              trade |-> [id |-> id, ticker |-> ticker, direction |-> direction,
                         entry_price |-> price, quantity |-> quantity, sl |-> sl,
                         tp |-> 0, status |-> "OPEN", instrument |-> i,
                         est_cost |-> est_cost, exit_price |-> 0, pnl |-> 0]]

\* place_order between the read of bot:capital and the read of bot:trades
\* for the prepend: the three gates and the trade dict
PlaceDecision(cap, daily_pnl, id, ticker, direction, price, sl, i) ==
    LET allow == check_entry_allowance(cap, StartCap, daily_pnl)
        quantity == calculate_position_size(cap, price, sl)
        est_cost == calculate_transaction_costs(price, quantity, direction, i)
        margin_needed == MarginNeeded(price, quantity, i)
    IN  IF ~allow.allowed
        THEN [status |-> "failed", reason |-> "Risk Block", trade |-> NoTrade]
        ELSE IF quantity < 1
        THEN [status |-> "failed", reason |-> "Calculated Quantity is 0", trade |-> NoTrade]
        ELSE IF margin_needed + est_cost > cap
        THEN [status |-> "failed", reason |-> "Insufficient Fund", trade |-> NoTrade]
        ELSE [status |-> "success", reason |-> "",
              trade |-> [id |-> id, ticker |-> ticker, direction |-> direction,
                         entry_price |-> price, quantity |-> quantity, sl |-> sl,
                         tp |-> 0, status |-> "OPEN", instrument |-> i,
                         est_cost |-> est_cost, exit_price |-> 0, pnl |-> 0]]

\* the same without the test of bot:active
PlaceResult_noActiveGate(act, cap, trs, id, ticker, direction, price, sl, i) ==
    PlaceDecision(cap, get_status(act, cap, trs).daily_pnl,
                  id, ticker, direction, price, sl, i)

\* the whole of place_order on one snapshot of the store
PlaceResult(act, cap, trs, id, ticker, direction, price, sl, i) ==
    IF ~act
    THEN [status |-> "failed", reason |-> "Bot is inactive", trade |-> NoTrade]
    ELSE PlaceDecision(cap, get_status(act, cap, trs).daily_pnl,
                       id, ticker, direction, price, sl, i)

\* the same without the test of the status
FindOpen_anyStatus(trs, trade_id) ==
    LET hits == {i \in 1..Len(trs) : trs[i].id = trade_id}
    IN  IF hits = {} THEN 0 ELSE CHOOSE i \in hits : \A j \in hits : i <= j

\* close_trade: index of the first trade with this id that is OPEN, else 0
FindOpen(trs, trade_id) ==
    LET hits == {i \in 1..Len(trs) : trs[i].id = trade_id /\ trs[i].status = "OPEN"}
    IN  IF hits = {} THEN 0 ELSE CHOOSE i \in hits : \A j \in hits : i <= j

OtherSide(direction) == IF direction = "BUY" THEN "SELL" ELSE "BUY"

\* the same with the entry cost left out
NetPnl_noEntryCost(t, exit_price) ==
    LET diff == (exit_price - t.entry_price) * t.quantity
        raw_pnl == IF t.direction = "SELL" THEN -diff ELSE diff
        exit_cost == calculate_transaction_costs(exit_price, t.quantity,
                                                 OtherSide(t.direction), t.instrument)
    IN  raw_pnl - exit_cost

\* net_pnl = raw_pnl - entry_cost - exit_cost
NetPnl(t, exit_price) ==
    LET diff == (exit_price - t.entry_price) * t.quantity
        raw_pnl == IF t.direction = "SELL" THEN -diff ELSE diff
        entry_cost == t.est_cost
        exit_cost == calculate_transaction_costs(exit_price, t.quantity,
                                                 OtherSide(t.direction), t.instrument)
    IN  raw_pnl - entry_cost - exit_cost

\* the loop body of close_trade applied to the trade at index k
CloseAt(trs, k, exit_price) ==
    [trs EXCEPT ![k] = [@ EXCEPT !.status = "CLOSED",
                                 !.exit_price = exit_price,
                                 !.pnl = Round2(NetPnl(trs[k], exit_price))]]

\* current_prices[tic].get(field, default): an optional field is a sequence
\* of length 0 or 1
GetOr(opt, default) == IF opt = <<>> THEN default ELSE opt[1]

\* new_sl of check_trailing_stops for one trade
TrailNewSl(t, curr) ==
    update_trailing_stop(t.entry_price, curr.price, t.sl,
                         GetOr(curr.atr, 0), GetOr(curr.regime, "NEUTRAL"))

Trails(t, current_prices) ==
    /\ t.status = "OPEN"
    /\ t.ticker \in DOMAIN current_prices
    /\ t.direction = "BUY"
    /\ TrailNewSl(t, current_prices[t.ticker]) > t.sl

\* the loop of check_trailing_stops over its copy of the log
TrailApply(trs, current_prices) ==
    [k \in 1..Len(trs) |->
        IF Trails(trs[k], current_prices)
        THEN [trs[k] EXCEPT !.sl = Round2(TrailNewSl(trs[k], current_prices[trs[k].ticker]))]
        ELSE trs[k]]

TrailUpdated(trs, current_prices) ==
    \E k \in 1..Len(trs) : Trails(trs[k], current_prices)

(***************************************************************************)
(* Inputs of the calls.                                                    *)
(***************************************************************************)
Tickers == {"T1", "T2"}
Directions == {"BUY", "SELL"}
Order(ticker, direction, price, sl, i) ==
    [ticker |-> ticker, direction |-> direction, price |-> price, sl |-> sl, instrument |-> i]
\* at capital 10000: 50 shares long, 50 shares short on 20% margin, a zero
\* risk distance (quantity 0) and 125 shares delivered (12500 of notional)
Orders ==
    {Order("T1", "BUY", 100000, 98003, "EQUITY_DELIVERY"),
     Order("T2", "SELL", 100000, 102000, "EQUITY_INTRADAY"),
     Order("T1", "BUY", 100000, 100000, "EQUITY_INTRADAY"),
     Order("T2", "BUY", 100000, 99200, "EQUITY_DELIVERY")}
ExitPrices == {95000, 100000}
PriceInfos ==
    {[price |-> 98004, atr |-> <<>>, regime |-> <<>>],
     [price |-> 103000, atr |-> <<1000>>, regime |-> <<"BULL_TREND">>],
     [price |-> 103000, atr |-> <<1000>>, regime |-> <<"HIGH_VOL_CRASH">>]}
PriceMaps == UNION {[D -> PriceInfos] : D \in SUBSET Tickers}

NoCall == [op |-> "none", status |-> "", reason |-> "", id |-> 0]

(***************************************************************************)
(* The handlers run one at a time.                                         *)
(***************************************************************************)
\* the beat process before the Celery app is configured
InitBeat ==
    /\ schedule = <<>>
    /\ clock = 0
    /\ astra_q = <<>>

InitOms ==
    /\ capital = InitialCapital
    /\ active = FALSE
    /\ trades = <<>>
    /\ nextId = 1
    /\ last = NoCall

InitIdle ==
    /\ procs = <<>>
    /\ start = <<>>
    /\ rs_in = <<>>
    /\ rs_out = <<>>
    /\ ts_in = <<>>
    /\ ts_stop = 0
    /\ rm_in = <<>>
    /\ rm_out = <<>>
    /\ fault = 0
    /\ InitBeat

Init == InitOms /\ InitIdle

start_bot ==
    /\ active' = TRUE
    /\ last' = [op |-> "start_bot", status |-> "Bot Started", reason |-> "", id |-> 0]
    /\ UNCHANGED <<capital, trades, nextId>>

stop_bot ==
    /\ active' = FALSE
    /\ last' = [op |-> "stop_bot", status |-> "Bot Stopped", reason |-> "", id |-> 0]
    /\ UNCHANGED <<capital, trades, nextId>>

\* the same with the trade recorded before the gates: a rejected order is
\* left in the log
place_order_logsRejected(ticker, direction, price, sl, i) ==
    LET res == PlaceResult(active, capital, trades, nextId, ticker, direction, price, sl, i)
        rejected == [id |-> nextId, ticker |-> ticker, direction |-> direction,
                     entry_price |-> price, quantity |-> 0, sl |-> sl,
                     tp |-> 0, status |-> "REJECTED", instrument |-> i,
                     est_cost |-> 0, exit_price |-> 0, pnl |-> 0]
    IN  /\ Len(trades) < MaxTrades
        /\ last' = [op |-> "place_order", status |-> res.status,
                    reason |-> res.reason, id |-> res.trade.id]
        /\ trades' = <<IF res.status = "success" THEN res.trade ELSE rejected>> \o trades
        /\ nextId' = nextId + 1
        /\ UNCHANGED <<capital, active>>

place_order(ticker, direction, price, sl, i) ==
    LET res == PlaceResult(active, capital, trades, nextId, ticker, direction, price, sl, i)
    IN  /\ res.status = "success" => Len(trades) < MaxTrades
        /\ last' = [op |-> "place_order", status |-> res.status,
                    reason |-> res.reason, id |-> res.trade.id]
        /\ IF res.status = "success"
           THEN /\ trades' = <<res.trade>> \o trades
                /\ nextId' = nextId + 1
           ELSE UNCHANGED <<trades, nextId>>
        /\ UNCHANGED <<capital, active>>

close_trade(trade_id, exit_price) ==
    LET k == FindOpen(trades, trade_id)
    IN  /\ last' = [op |-> "close_trade", status |-> IF k # 0 THEN "True" ELSE "False",
                    reason |-> "", id |-> trade_id]
        /\ IF k # 0
           THEN /\ capital' = capital + NetPnl(trades[k], exit_price)
                /\ trades' = CloseAt(trades, k, exit_price)
           ELSE UNCHANGED <<capital, trades>>
        /\ UNCHANGED <<active, nextId>>

check_trailing_stops(current_prices) ==
    /\ trades' = IF TrailUpdated(trades, current_prices)
                 THEN TrailApply(trades, current_prices) ELSE trades
    /\ last' = [op |-> "check_trailing_stops", status |-> "", reason |-> "", id |-> 0]
    /\ UNCHANGED <<capital, active, nextId>>

Next ==
    \/ (start_bot /\ UNCHANGED <<procs, start, rs_in, rs_out, ts_in, ts_stop, rm_in, rm_out, fault, beatVars>>)
    \/ (stop_bot /\ UNCHANGED <<procs, start, rs_in, rs_out, ts_in, ts_stop, rm_in, rm_out, fault, beatVars>>)
    \/ \E o \in Orders :
          place_order(o.ticker, o.direction, o.price, o.sl, o.instrument)
          /\ UNCHANGED <<procs, start, rs_in, rs_out, ts_in, ts_stop, rm_in, rm_out, fault, beatVars>>
    \/ \E trade_id \in 1..(nextId - 1), exit_price \in ExitPrices :
          close_trade(trade_id, exit_price)
          /\ UNCHANGED <<procs, start, rs_in, rs_out, ts_in, ts_stop, rm_in, rm_out, fault, beatVars>>
    \/ \E current_prices \in PriceMaps :
          check_trailing_stops(current_prices)
          /\ UNCHANGED <<procs, start, rs_in, rs_out, ts_in, ts_stop, rm_in, rm_out, fault, beatVars>>

Spec == Init /\ [][Next]_vars

(***************************************************************************)
(* The order handlers with the arguments of each place_order kept beside   *)
(* its return value.                                                       *)
(***************************************************************************)
GateCall(o) ==
    /\ place_order(o.ticker, o.direction, o.price, o.sl, o.instrument)
    /\ rm_in' = [fn |-> "place_order", order |-> o]
    /\ UNCHANGED <<procs, start, rs_in, rs_out, ts_in, ts_stop, rm_out, fault, beatVars>>

NextGate ==
    \/ (start_bot /\ UNCHANGED <<procs, start, rs_in, rs_out, ts_in, ts_stop, rm_in, rm_out, fault, beatVars>>)
    \/ (stop_bot /\ UNCHANGED <<procs, start, rs_in, rs_out, ts_in, ts_stop, rm_in, rm_out, fault, beatVars>>)
    \/ \E o \in Orders : GateCall(o)
    \/ \E trade_id \in 1..(nextId - 1), exit_price \in ExitPrices :
          close_trade(trade_id, exit_price)
          /\ UNCHANGED <<procs, start, rs_in, rs_out, ts_in, ts_stop, rm_in, rm_out, fault, beatVars>>

SpecGate == Init /\ [][NextGate]_vars

(***************************************************************************)
(* update_trailing_stop called over a price sequence, each result fed back *)
(* as the next current_sl.                                                 *)
(***************************************************************************)
TrailEntryPrices == {100000}
TrailStartStops == {0, 95000, 98003}
TrailPrices == {94000, 98004, 101500, 103000}
TrailAtrs == {0, 1000, 2500}
\* market_regime.py: the label of each hidden state, states ordered by mean return
regime_map(state) ==
    IF state = 0 THEN <<"BEAR_CRASH">>
    ELSE IF state = 1 THEN <<"SIDEWAYS_CHOP">>
    ELSE IF state = 2 THEN <<"BULL_STABLE">>
    ELSE IF state = 3 THEN <<"HIGH_VOL_EVENT">>
    ELSE <<>>

\* rule_based_detect on the last row of the frame; atr_pct in hundredths of a percent
rule_based_detect(df) ==
    IF df.empty THEN "NEUTRAL"
    ELSE IF df.atr_pct > 300 /\ df.price < df.sma_200 THEN "BEAR_CRASH"
    ELSE IF df.atr_pct > 300 /\ df.price > df.sma_200 THEN "HIGH_VOL_EVENT"
    ELSE IF df.adx < 25 THEN "SIDEWAYS_CHOP"
    ELSE IF df.price > df.sma_200 /\ df.sma_50 > df.sma_200 THEN "BULL_STABLE"
    ELSE IF df.price < df.sma_200 THEN "BEAR_CRASH"
    ELSE "SIDEWAYS_CHOP"

\* detect_regime: hmm.model tells whether hmmlearn gave a model, hmm.raises
\* whether the prediction fails, hmm.state is the hidden state of the last row
detect_regime(df, hmm) ==
    IF ~hmm.model THEN rule_based_detect(df)
    ELSE IF df.rows < 10 THEN "NEUTRAL"
    ELSE IF hmm.raises THEN rule_based_detect(df)
    ELSE GetOr(regime_map(hmm.state), "NEUTRAL")

DetectorFrames ==
    [empty : BOOLEAN, rows : {5, 250}, atr_pct : {100, 400}, price : {100000},
     sma_200 : {95000, 100000, 105000}, sma_50 : {90000, 110000}, adx : {20, 30}]
HmmStates == [model : BOOLEAN, raises : BOOLEAN, state : 0..3]
DetectorLabels == {detect_regime(df, hmm) : df \in DetectorFrames, hmm \in HmmStates}

\* strategy_registry.py: the regime strings the registry maps to a strategy
RegistryRegimes ==
    {"BULL_TREND", "BEAR_TREND", "LOW_VOL_SIDEWAYS", "HIGH_VOL_CRASH",
     "VOLATILE_COMMODITY", "EVENT_DRIVEN", "NEUTRAL"}

Regimes == {"NEUTRAL", "BULL_TREND", "HIGH_VOL_CRASH", "VOLATILE_COMMODITY"} \cup DetectorLabels

InitTrail ==
    /\ InitOms
    /\ procs = <<>>
    /\ start = <<>>
    /\ rs_in = <<>>
    /\ rs_out = <<>>
    /\ ts_in = <<>>
    /\ ts_stop \in TrailStartStops
    /\ rm_in = <<>>
    /\ rm_out = <<>>
    /\ fault = 0
    /\ InitBeat

TrailCall(entry_price, current_price, atr, regime) ==
    LET result == update_trailing_stop(entry_price, current_price, ts_stop, atr, regime)
    IN  /\ ts_in' = [current_price |-> current_price, current_sl |-> ts_stop,
                     atr |-> atr, regime |-> regime, result |-> result]
        /\ ts_stop' = result

NextTrail ==
    \E entry_price \in TrailEntryPrices, current_price \in TrailPrices,
       atr \in TrailAtrs, regime \in Regimes :
        TrailCall(entry_price, current_price, atr, regime)
        /\ UNCHANGED <<capital, active, trades, nextId, last, procs, start, rs_in, rs_out, rm_in, rm_out, fault, beatVars>>

SpecTrail == InitTrail /\ [][NextTrail]_vars

(***************************************************************************)
(* RiskManager.calculate_position_size and check_entry_allowance called    *)
(* on their own, over capitals, prices, stops and realized PnL.            *)
(***************************************************************************)
SizeCapitals == {-5000000, 0, 150000, 10000000, 100000000}
SizePrices == {100000, 100500, 1000000}
SizeStops == {0, 90000, 98003, 100000, 100500, 102000}
\* <<current_capital, start_capital>>
AllowCapitals ==
    {<<10000000, 10000000>>, <<9500000, 10000000>>, <<9499990, 10000000>>,
     <<9000000, 10000000>>, <<10500000, 10000000>>, <<100000000, 100000000>>,
     <<90000000, 100000000>>}
AllowPnls == {-3000000, -2500000, -200010, -200000, -190010, -190000, 0, 50000}

InitRisk ==
    /\ InitOms
    /\ procs = <<>>
    /\ start = <<>>
    /\ rs_in = <<>>
    /\ rs_out = <<>>
    /\ ts_in = <<>>
    /\ ts_stop = 0
    /\ rm_in = <<>>
    /\ rm_out = <<>>
    /\ fault = 0
    /\ InitBeat

SizeCall(cap, price, sl) ==
    /\ rm_in' = [fn |-> "calculate_position_size", capital |-> cap, price |-> price, sl |-> sl]
    /\ rm_out' = calculate_position_size(cap, price, sl)

AllowCall(current_capital, start_capital, daily_pnl) ==
    /\ rm_in' = [fn |-> "check_entry_allowance", current_capital |-> current_capital,
                 start_capital |-> start_capital, daily_pnl |-> daily_pnl]
    /\ rm_out' = check_entry_allowance(current_capital, start_capital, daily_pnl)

NextRisk ==
    \/ \E cap \in SizeCapitals, price \in SizePrices, sl \in SizeStops :
          SizeCall(cap, price, sl)
          /\ UNCHANGED <<capital, active, trades, nextId, last, procs, start,
                         rs_in, rs_out, ts_in, ts_stop, fault, beatVars>>
    \/ \E c \in AllowCapitals, daily_pnl \in AllowPnls :
          AllowCall(c[1], c[2], daily_pnl)
          /\ UNCHANGED <<capital, active, trades, nextId, last, procs, start,
                         rs_in, rs_out, ts_in, ts_stop, fault, beatVars>>

SpecRisk == InitRisk /\ [][NextRisk]_vars

(***************************************************************************)
(* services/engine_astra/rules_engine.py.  The latest row of df is the     *)
(* record `latest`; the score carries two decimals (75 is 7500), as do the *)
(* Altman Z (1.8 is 180), the Beneish M (-1.78 is -178), sentiment_score   *)
(* and catalyst_score (0.1 is 10); revenue_growth is in percent.           *)
(***************************************************************************)
\* nearest multiple of m to x, ties to even
RoundTo(x, m) ==
    LET q == x \div m
        r == x % m
    IN  IF 2 * r < m THEN q * m
        ELSE IF 2 * r > m THEN (q + 1) * m
        ELSE IF q % 2 = 0 THEN q * m ELSE (q + 1) * m

SetMax(S, default) == IF S = {} THEN default ELSE CHOOSE x \in S : \A y \in S : y <= x
SetMin(S, default) == IF S = {} THEN default ELSE CHOOSE x \in S : \A y \in S : x <= y

\* multiplier 1.5 / 2.5 / 3.5, in tenths
StopMultiplier10(term) == IF term = "short" THEN 15 ELSE IF term = "mid" THEN 25 ELSE 35

calculate_stop_loss(current_price, atr, term, direction) ==
    LET sl10 == IF direction = "LONG"
                THEN current_price * 10 - atr * StopMultiplier10(term)
                ELSE current_price * 10 + atr * StopMultiplier10(term)
    IN  RoundTo(sl10, 100) \div 10

determine_risk_level(altman_z, piotroski_f, beneish_m, atr, current_price) ==
    LET a == IF altman_z < 180 THEN 3 ELSE IF altman_z < 300 THEN 1 ELSE 0
        f == IF piotroski_f < 4 THEN 2 ELSE 0
        b == IF beneish_m > -178 THEN 2 ELSE 0
        \* vol_pct = atr / current_price against 0.04 and 0.02
        v == IF atr * 100 > 4 * current_price THEN 2
             ELSE IF atr * 100 > 2 * current_price THEN 1 ELSE 0
        risk_score == a + f + b + v
    IN  IF risk_score >= 5 THEN "HIGH" ELSE IF risk_score >= 2 THEN "MEDIUM" ELSE "LOW"

TermEma(latest, term) ==
    IF term = "short" THEN latest.ema_20
    ELSE IF term = "mid" THEN latest.ema_50 ELSE latest.ema_200

analyze_timeframe(latest, term, current_price, atr, base_verdict, sector_status) ==
    LET trend == IF current_price > TermEma(latest, term) THEN "UP" ELSE "DOWN"
        v1 == IF trend = "DOWN" /\ base_verdict \in {"BUY", "STRONG BUY"}
              THEN (IF term = "long" THEN "HOLD" ELSE "ACCUMULATE")
              ELSE base_verdict
        verdict == IF trend = "UP" /\ base_verdict = "SELL" THEN "HOLD" ELSE v1
        direction == IF verdict = "SELL" THEN "SHORT" ELSE "LONG"
        stop_loss == calculate_stop_loss(current_price, atr, term, direction)
        risk0 == Abs(current_price - stop_loss)
        risk == IF risk0 = 0 THEN (current_price * 5) \div 100 ELSE risk0
        target_conservative == IF direction = "LONG" THEN current_price + risk * 2
                               ELSE current_price - risk * 2
        target_aggressive10 == IF direction = "LONG" THEN current_price * 10 + risk * 35
                               ELSE current_price * 10 - risk * 35
    IN  [verdict |-> verdict,
         trend |-> trend,
         target_conservative |-> Round2(target_conservative),
         target_aggressive |-> RoundTo(target_aggressive10, 100) \div 10,
         stop_loss |-> Round2(stop_loss),
         \* round(|target_conservative - current_price| / risk, 2), two decimals
         risk_reward |-> IF risk = 0 THEN 0
                         ELSE RoundTo(Abs(target_conservative - current_price) * 100, risk)
                              \div risk]

\* the additive score of analyze_stock, two decimals
BaseScore(latest, sr_levels, fundamentals, sentiment_score, catalyst_score) ==
    LET current_price == latest.close
        nearest_support ==
            SetMax({l[1] : l \in {m \in sr_levels : m[2] = "Support" /\ m[1] < current_price}}, 0)
        nearest_resistance ==
            SetMin({l[1] : l \in {m \in sr_levels : m[2] = "Resistance" /\ m[1] > current_price}},
                   (current_price * 15) \div 10)
        near_support == (current_price - nearest_support) * 100 < 3 * current_price
        near_resistance == (nearest_resistance - current_price) * 100 < 3 * current_price
    IN    (IF latest.rsi < 30 THEN 1500
           ELSE IF 40 <= latest.rsi /\ latest.rsi <= 70 THEN 1000 ELSE 0)
        + (IF latest.close > latest.ema_50 THEN 2000 ELSE 0)
        + (IF latest.macd > latest.macd_signal THEN 1500 ELSE 0)
        + (IF latest.vol_spike THEN 500 ELSE 0)
        + (IF near_support THEN 1000 ELSE 0)
        - (IF near_resistance THEN 1000 ELSE 0)
        + (IF fundamentals.piotroski_f_score >= 6 THEN 1000 ELSE 0)
        + (IF fundamentals.revenue_growth > 10 THEN 1000 ELSE 0)
        + (IF sentiment_score > 10 THEN 1000 ELSE 0)
        + catalyst_score * 20

\* the same with the thresholds exclusive
BaseVerdict_strict(score, sector_status) ==
    LET v == IF score > 7500 THEN "STRONG BUY"
             ELSE IF score > 5000 THEN "BUY"
             ELSE IF score > 3000 THEN "ACCUMULATE"
             ELSE IF score < 2000 THEN "SELL"
             ELSE "HOLD"
    IN  IF sector_status = "BEARISH" /\ v \in {"BUY", "STRONG BUY"} THEN "ACCUMULATE" ELSE v

BaseVerdict(score, sector_status) ==
    LET v == IF score >= 7500 THEN "STRONG BUY"
             ELSE IF score >= 5000 THEN "BUY"
             ELSE IF score >= 3000 THEN "ACCUMULATE"
             ELSE IF score < 2000 THEN "SELL"
             ELSE "HOLD"
    IN  IF sector_status = "BEARISH" /\ v \in {"BUY", "STRONG BUY"} THEN "ACCUMULATE" ELSE v

analyze_stock(in) ==
    LET latest == in.latest
        current_price == latest.close
        atr == GetOr(latest.atr, (current_price * 2) \div 100)
        score == BaseScore(latest, in.sr_levels, in.fundamentals,
                           in.sentiment_score, in.catalyst_score)
        base_verdict == BaseVerdict(score, in.sector_status)
    IN  [st |-> analyze_timeframe(latest, "short", current_price, atr, base_verdict, in.sector_status),
         mt |-> analyze_timeframe(latest, "mid", current_price, atr, base_verdict, in.sector_status),
         lt |-> analyze_timeframe(latest, "long", current_price, atr, base_verdict, in.sector_status),
         risk_level |-> determine_risk_level(in.fundamentals.altman_z_score,
                                             in.fundamentals.piotroski_f_score,
                                             in.fundamentals.beneish_m_score,
                                             atr, current_price),
         score |-> score]

\* SectorContext of the specification: the sectors exempt from the Altman veto
CapitalIntensive(sector) ==
    sector \in {"Real Estate", "Banking", "Utilities", "Infrastructure", "Power",
                "Telecom", "Capital Goods", "Construction", "Insurance", "NBFC",
                "Industrials"}

Latests ==
    [close : {100000}, ema_20 : {95000, 105000}, ema_50 : {95000, 105000},
     ema_200 : {95000, 105000}, rsi : {25, 55, 75}, macd : {-1, 1}, macd_signal : {0},
     vol_spike : {TRUE}, atr : {<<>>, <<0>>, <<2500>>}]
SrLevelSets == {{}, {<<98000, "Support">>}, {<<102000, "Resistance">>}}
Fundamentals ==
    [piotroski_f_score : {3, 7}, revenue_growth : {15},
     altman_z_score : {100, 400}, beneish_m_score : {-250, -100}]
RuleInputs ==
    [latest : Latests, sr_levels : SrLevelSets, fundamentals : Fundamentals,
     sentiment_score : {-20, 20}, catalyst_score : {0, 100},
     \* forecast_df: the forecast price of the nearest horizon; analyze_stock
     \* takes the argument and never reads it
     forecast_df : {95000, 110000},
     sector : {"Technology", "Banking"},
     sector_status : {"BULLISH", "BEARISH", "NEUTRAL"}]

InitRules ==
    /\ InitOms
    /\ procs = <<>>
    /\ start = <<>>
    /\ ts_in = <<>>
    /\ ts_stop = 0
    /\ rm_in = <<>>
    /\ rm_out = <<>>
    /\ fault = 0
    /\ InitBeat
    /\ rs_in \in RuleInputs
    /\ rs_out = <<>>

Analyze ==
    /\ rs_out = <<>>
    /\ rs_out' = analyze_stock(rs_in)
    /\ UNCHANGED rs_in

NextRules ==
    Analyze /\ UNCHANGED <<capital, active, trades, nextId, last, procs, start, ts_in, ts_stop, rm_in, rm_out, fault, beatVars>>

SpecRules == InitRules /\ [][NextRules]_vars

(***************************************************************************)
(* One order placed and closed, over every direction and instrument type.  *)
(***************************************************************************)
MaxRoundTrades == 1

RoundOrders ==
    [ticker : {"T1"}, direction : Directions, price : {40050, 100000},
     sl : {42000, 98003}, instrument : InstrumentTypes]
RoundExitPrices == {40050, 95000, 100000}

NextRound ==
    \/ (start_bot /\ UNCHANGED <<procs, start, rs_in, rs_out, ts_in, ts_stop, rm_in, rm_out, fault, beatVars>>)
    \/ \E o \in RoundOrders :
          /\ Len(trades) < MaxRoundTrades
          /\ place_order(o.ticker, o.direction, o.price, o.sl, o.instrument)
          /\ UNCHANGED <<procs, start, rs_in, rs_out, ts_in, ts_stop, rm_in, rm_out, fault, beatVars>>
    \/ \E trade_id \in 1..(nextId - 1), exit_price \in RoundExitPrices :
          close_trade(trade_id, exit_price)
          /\ UNCHANGED <<procs, start, rs_in, rs_out, ts_in, ts_stop, rm_in, rm_out, fault, beatVars>>

SpecRound == Init /\ [][NextRound]_vars

(***************************************************************************)
(* The handlers over prices quoted to a tenth of a paisa: 51 shares bought *)
(* at 100.0 and sold at 99.001.                                            *)
(***************************************************************************)
LedgerOrders ==
    {Order("T1", "BUY", 100000, 98040, "EQUITY_DELIVERY"),
     Order("T2", "SELL", 100000, 102000, "EQUITY_INTRADAY")}
LedgerExitPrices == {95000, 99001}
LedgerPriceMaps ==
    {[t \in {"T1"} |-> [price |-> 103000, atr |-> <<1000>>, regime |-> <<"BULL_TREND">>]]}

NextLedger ==
    \/ (start_bot /\ UNCHANGED <<procs, start, rs_in, rs_out, ts_in, ts_stop, rm_in, rm_out, fault, beatVars>>)
    \/ (stop_bot /\ UNCHANGED <<procs, start, rs_in, rs_out, ts_in, ts_stop, rm_in, rm_out, fault, beatVars>>)
    \/ \E o \in LedgerOrders :
          place_order(o.ticker, o.direction, o.price, o.sl, o.instrument)
          /\ UNCHANGED <<procs, start, rs_in, rs_out, ts_in, ts_stop, rm_in, rm_out, fault, beatVars>>
    \/ \E trade_id \in 1..(nextId - 1), exit_price \in LedgerExitPrices :
          close_trade(trade_id, exit_price)
          /\ UNCHANGED <<procs, start, rs_in, rs_out, ts_in, ts_stop, rm_in, rm_out, fault, beatVars>>
    \/ \E current_prices \in LedgerPriceMaps :
          check_trailing_stops(current_prices)
          /\ UNCHANGED <<procs, start, rs_in, rs_out, ts_in, ts_stop, rm_in, rm_out, fault, beatVars>>

SpecLedger == Init /\ [][NextLedger]_vars

(***************************************************************************)
(* The handlers with store failures.  Each Redis call of a handler either  *)
(* succeeds or raises; F is the set of calls of this run that raise.       *)
(* get_trades wraps its GET and json.loads in try / except and returns []  *)
(* on any exception, so a failed or unreadable read of bot:trades is an    *)
(* empty log to its caller; every other failure leaves the handler as the  *)
(* exception, at the call that raised.                                     *)
(***************************************************************************)
MaxFaults == 2

PlaceCalls ==
    {"get_active", "get_capital", "status_get_active", "status_get_capital",
     "status_get_trades", "get_trades", "save_trades"}
CloseCalls == {"get_trades", "get_capital", "set_capital", "save_trades"}

Raised(trs, drew, hit) ==
    [status |-> "raised", reason |-> "", trade |-> NoTrade, log |-> trs,
     drew |-> drew, hit |-> hit]

\* place_order on one snapshot of the store, the calls in F raising
PlaceUnderFaults(F, act, cap, trs, id, ticker, direction, price, sl, i) ==
    IF "get_active" \in F THEN Raised(trs, FALSE, TRUE)
    ELSE IF ~act
    THEN [status |-> "failed", reason |-> "Bot is inactive", trade |-> NoTrade,
          log |-> trs, drew |-> FALSE, hit |-> FALSE]
    ELSE IF {"get_capital", "status_get_active", "status_get_capital"} \cap F # {}
    THEN Raised(trs, FALSE, TRUE)
    ELSE LET seen == IF "status_get_trades" \in F THEN <<>> ELSE trs
             res == PlaceDecision(cap, get_status(act, cap, seen).daily_pnl,
                                  id, ticker, direction, price, sl, i)
             base == IF "get_trades" \in F THEN <<>> ELSE trs
         IN  IF res.status # "success"
             THEN [status |-> res.status, reason |-> res.reason, trade |-> NoTrade,
                   log |-> trs, drew |-> FALSE, hit |-> "status_get_trades" \in F]
             ELSE IF "save_trades" \in F THEN Raised(trs, TRUE, TRUE)
             ELSE [status |-> "success", reason |-> "", trade |-> res.trade,
                   log |-> <<res.trade>> \o base, drew |-> TRUE,
                   hit |-> {"status_get_trades", "get_trades"} \cap F # {}]

place_order_faulty(F, ticker, direction, price, sl, i) ==
    LET res == PlaceUnderFaults(F, active, capital, trades, nextId,
                                ticker, direction, price, sl, i)
    IN  /\ res.drew => (Len(trades) < MaxTrades /\ nextId <= MaxTrades)
        /\ last' = [op |-> "place_order", status |-> res.status,
                    reason |-> res.reason, id |-> res.trade.id]
        /\ trades' = res.log
        /\ nextId' = IF res.drew THEN nextId + 1 ELSE nextId
        /\ res.hit => fault < MaxFaults
        /\ fault' = IF res.hit THEN fault + 1 ELSE fault
        /\ UNCHANGED <<capital, active>>

close_trade_faulty(F, trade_id, exit_price) ==
    LET seen == IF "get_trades" \in F THEN <<>> ELSE trades
        k == FindOpen(seen, trade_id)
        credited == k # 0 /\ {"get_capital", "set_capital"} \cap F = {}
        saved == credited /\ "save_trades" \notin F
        hit == "get_trades" \in F \/ (k # 0 /\ ~saved)
    IN  /\ hit => fault < MaxFaults
        /\ last' = [op |-> "close_trade",
                    status |-> IF k = 0 THEN "False"
                               ELSE IF saved THEN "True" ELSE "raised",
                    reason |-> "", id |-> trade_id]
        /\ capital' = IF credited THEN capital + NetPnl(trades[k], exit_price) ELSE capital
        /\ trades' = IF saved THEN CloseAt(trades, k, exit_price) ELSE trades
        /\ fault' = IF hit THEN fault + 1 ELSE fault
        /\ UNCHANGED <<active, nextId>>

NextFail ==
    \/ (start_bot
        /\ UNCHANGED <<procs, start, rs_in, rs_out, ts_in, ts_stop, rm_in, rm_out, fault, beatVars>>)
    \/ \E F \in SUBSET PlaceCalls, o \in Orders :
          place_order_faulty(F, o.ticker, o.direction, o.price, o.sl, o.instrument)
          /\ UNCHANGED <<procs, start, rs_in, rs_out, ts_in, ts_stop, rm_in, rm_out, beatVars>>
    \/ \E F \in SUBSET CloseCalls, trade_id \in 1..(nextId - 1), exit_price \in ExitPrices :
          close_trade_faulty(F, trade_id, exit_price)
          /\ UNCHANGED <<procs, start, rs_in, rs_out, ts_in, ts_stop, rm_in, rm_out, beatVars>>

SpecFail == Init /\ [][NextFail]_vars

(***************************************************************************)
(* Two callers of one OrderManagementSystem store.  Each Redis GET or SET  *)
(* of a handler is one step; the code takes no lock and opens no           *)
(* transaction, so the steps of the two callers interleave freely.  The    *)
(* callers are released on a store that the handlers, run one at a time,   *)
(* have produced: the bot started and a log of admitted orders.            *)
(***************************************************************************)
Procs == {"p1", "p2"}

ConcOrders ==
    {Order("T1", "BUY", 100000, 98003, "EQUITY_DELIVERY"),
     Order("T2", "BUY", 100000, 98003, "EQUITY_INTRADAY")}
ConcExitPrices == {95000, 100000}
ConcPriceMaps ==
    {[t \in {"T1"} |-> [price |-> 103000, atr |-> <<1000>>, regime |-> <<"BULL_TREND">>]],
     [t \in Tickers |-> [price |-> 103000, atr |-> <<1000>>, regime |-> <<"HIGH_VOL_CRASH">>]]}

\* the logs left by at most n place_order calls, run one at a time
RECURSIVE PlacedLogs(_)
PlacedLogs(n) ==
    IF n = 0 THEN {<<>>}
    ELSE LET prev == PlacedLogs(n - 1)
             res(trs, o) == PlaceResult(TRUE, InitialCapital, trs, Len(trs) + 1,
                                        o.ticker, o.direction, o.price, o.sl, o.instrument)
         IN  prev \cup {<<res(trs, o).trade>> \o trs :
                          <<trs, o>> \in {x \in prev \X ConcOrders :
                                            res(x[1], x[2]).status = "success"}}

Idle ==
    [pc |-> "idle", op |-> "none", order |-> <<>>, trade_id |-> 0, exit_price |-> 0,
     current_prices |-> <<>>, cap |-> 0, trs |-> <<>>, trade |-> NoTrade, net_pnl |-> 0,
     status |-> "", reason |-> ""]

InitConc ==
    /\ capital = InitialCapital
    /\ active = TRUE
    /\ trades \in PlacedLogs(MaxTrades)
    /\ nextId = Len(trades) + 1
    /\ last = NoCall
    /\ procs = [p \in Procs |-> Idle]
    /\ start = [capital |-> capital, trades |-> trades]
    /\ rs_in = <<>>
    /\ rs_out = <<>>
    /\ ts_in = <<>>
    /\ ts_stop = 0
    /\ rm_in = <<>>
    /\ rm_out = <<>>
    /\ fault = 0
    /\ InitBeat

Return(f, status, reason) == [f EXCEPT !.pc = "done", !.status = status, !.reason = reason]

\* start_bot / stop_bot: one SET
c_start_bot(p) ==
    /\ procs[p].pc = "idle"
    /\ active' = TRUE
    /\ procs' = [procs EXCEPT ![p] = Return([@ EXCEPT !.op = "start_bot"], "Bot Started", "")]
    /\ UNCHANGED <<capital, trades, nextId>>

c_stop_bot(p) ==
    /\ procs[p].pc = "idle"
    /\ active' = FALSE
    /\ procs' = [procs EXCEPT ![p] = Return([@ EXCEPT !.op = "stop_bot"], "Bot Stopped", "")]
    /\ UNCHANGED <<capital, trades, nextId>>

\* place_order: GET bot:active
po_active(p, o) ==
    /\ procs[p].pc = "idle"
    /\ procs' = [procs EXCEPT ![p] =
                    IF ~active
                    THEN Return([@ EXCEPT !.op = "place_order", !.order = o],
                                "failed", "Bot is inactive")
                    ELSE [@ EXCEPT !.op = "place_order", !.order = o, !.pc = "po_capital"]]
    /\ UNCHANGED <<capital, active, trades, nextId>>

\* place_order: GET bot:capital
po_capital(p) ==
    /\ procs[p].pc = "po_capital"
    /\ procs' = [procs EXCEPT ![p] = [@ EXCEPT !.cap = capital, !.pc = "po_status"]]
    /\ UNCHANGED <<capital, active, trades, nextId>>

\* place_order: get_status (its GET of bot:trades), the gates, uuid4
po_status(p) ==
    LET f == procs[p]
        o == f.order
        res == PlaceDecision(f.cap, get_status(active, capital, trades).daily_pnl, nextId,
                             o.ticker, o.direction, o.price, o.sl, o.instrument)
    IN  /\ f.pc = "po_status"
        /\ IF res.status = "success"
           THEN /\ procs' = [procs EXCEPT ![p] = [@ EXCEPT !.trade = res.trade, !.pc = "po_get"]]
                /\ nextId' = nextId + 1
           ELSE /\ procs' = [procs EXCEPT ![p] = Return(@, res.status, res.reason)]
                /\ UNCHANGED nextId
        /\ UNCHANGED <<capital, active, trades>>

\* place_order: get_trades
po_get(p) ==
    /\ procs[p].pc = "po_get"
    /\ procs' = [procs EXCEPT ![p] = [@ EXCEPT !.trs = trades, !.pc = "po_save"]]
    /\ UNCHANGED <<capital, active, trades, nextId>>

\* place_order: insert at the head and save_trades
po_save(p) ==
    /\ procs[p].pc = "po_save"
    /\ trades' = <<procs[p].trade>> \o procs[p].trs
    /\ procs' = [procs EXCEPT ![p] = Return(@, "success", "")]
    /\ UNCHANGED <<capital, active, nextId>>

\* close_trade: get_trades and the loop up to the trade found
ct_get(p, trade_id, exit_price) ==
    LET k == FindOpen(trades, trade_id)
        f == [procs[p] EXCEPT !.op = "close_trade", !.trade_id = trade_id,
                              !.exit_price = exit_price]
    IN  /\ procs[p].pc = "idle"
        /\ procs' = [procs EXCEPT ![p] =
                        IF k = 0 THEN Return(f, "False", "")
                        ELSE [f EXCEPT !.trs = CloseAt(trades, k, exit_price),
                                       !.net_pnl = NetPnl(trades[k], exit_price),
                                       !.pc = "ct_capital"]]
        /\ UNCHANGED <<capital, active, trades, nextId>>

\* close_trade: GET bot:capital
ct_capital(p) ==
    /\ procs[p].pc = "ct_capital"
    /\ procs' = [procs EXCEPT ![p] = [@ EXCEPT !.cap = capital, !.pc = "ct_setcap"]]
    /\ UNCHANGED <<capital, active, trades, nextId>>

\* close_trade: SET bot:capital cap + net_pnl
ct_setcap(p) ==
    /\ procs[p].pc = "ct_setcap"
    /\ capital' = procs[p].cap + procs[p].net_pnl
    /\ procs' = [procs EXCEPT ![p] = [@ EXCEPT !.pc = "ct_save"]]
    /\ UNCHANGED <<active, trades, nextId>>

\* close_trade: save_trades
ct_save(p) ==
    /\ procs[p].pc = "ct_save"
    /\ trades' = procs[p].trs
    /\ procs' = [procs EXCEPT ![p] = Return(@, "True", "")]
    /\ UNCHANGED <<capital, active, nextId>>

\* check_trailing_stops: get_trades and the loop
ts_get(p, current_prices) ==
    LET f == [procs[p] EXCEPT !.op = "check_trailing_stops",
                              !.current_prices = current_prices]
    IN  /\ procs[p].pc = "idle"
        /\ procs' = [procs EXCEPT ![p] =
                        IF TrailUpdated(trades, current_prices)
                        THEN [f EXCEPT !.trs = TrailApply(trades, current_prices),
                                       !.pc = "ts_save"]
                        ELSE Return(f, "", "")]
        /\ UNCHANGED <<capital, active, trades, nextId>>

\* check_trailing_stops: save_trades
ts_save(p) ==
    /\ procs[p].pc = "ts_save"
    /\ trades' = procs[p].trs
    /\ procs' = [procs EXCEPT ![p] = Return(@, "", "")]
    /\ UNCHANGED <<capital, active, nextId>>

ConcStep(p) ==
    \/ c_start_bot(p)
    \/ c_stop_bot(p)
    \/ \E o \in ConcOrders : po_active(p, o)
    \/ po_capital(p)
    \/ po_status(p)
    \/ po_get(p)
    \/ po_save(p)
    \/ \E trade_id \in 1..(nextId - 1), exit_price \in ConcExitPrices :
          ct_get(p, trade_id, exit_price)
    \/ ct_capital(p)
    \/ ct_setcap(p)
    \/ ct_save(p)
    \/ \E current_prices \in ConcPriceMaps : ts_get(p, current_prices)
    \/ ts_save(p)

NextConc ==
    \E p \in Procs :
        ConcStep(p) /\ UNCHANGED <<last, start, rs_in, rs_out, ts_in, ts_stop, rm_in, rm_out, fault, beatVars>>

SpecConc == InitConc /\ [][NextConc]_vars

(***************************************************************************)
(* The Chakra beat process: setup_periodic_tasks registers the nightly     *)
(* entries, and every minute the beat sends the task of each entry whose   *)
(* crontab matches the wall clock to queue astra_q.                        *)
(***************************************************************************)
MaxNights == 1

\* crontab(hour=h, minute=m): due at minute m of hour h of every day
crontab(hour, minute) == [hour |-> hour, minute |-> minute]

is_due(cron, minutes) ==
    /\ (minutes \div 60) % 24 = cron.hour
    /\ minutes % 60 = cron.minute

setup_periodic_tasks ==
    /\ schedule = <<>>
    /\ schedule' =
          <<[name |-> "Run Sector Pulse Analysis",
             cron |-> crontab(1, 0),
             task |-> "astra.run_sector_update", queue |-> "astra_q"],
            [name |-> "Run Nightly Data & Analysis Pipeline",
             cron |-> crontab(1, 0),
             task |-> "astra.run_nightly_update", queue |-> "astra_q"]>>
    /\ UNCHANGED <<clock, astra_q>>

\* the messages of the entries due at this minute, in the order registered
RECURSIVE Due(_, _)
Due(entries, minutes) ==
    IF entries = <<>> THEN <<>>
    ELSE (IF is_due(Head(entries).cron, minutes)
          THEN <<[task |-> Head(entries).task, at |-> minutes]>> ELSE <<>>)
         \o Due(Tail(entries), minutes)

\* one minute of wall clock passes
beat_tick ==
    /\ schedule # <<>>
    /\ clock + 1 < MaxNights * 24 * 60
    /\ clock' = clock + 1
    /\ astra_q' = astra_q \o Due(schedule, clock + 1)
    /\ UNCHANGED schedule

NextBeat ==
    \/ (setup_periodic_tasks
        /\ UNCHANGED <<omsVars, procs, start, rulesVars, trailVars, riskVars, fault>>)
    \/ (beat_tick
        /\ UNCHANGED <<omsVars, procs, start, rulesVars, trailVars, riskVars, fault>>)

SpecBeat == Init /\ [][NextBeat]_vars

(***************************************************************************)
(* Properties.                                                             *)
(***************************************************************************)
OpenIdx(trs) == {k \in 1..Len(trs) : trs[k].status = "OPEN"}
ClosedIdx(trs) == {k \in 1..Len(trs) : trs[k].status = "CLOSED"}

\* margin plus recorded entry cost of the OPEN trades
Committed(trs) ==
    SumSeq([k \in 1..Len(trs) |->
              IF trs[k].status = "OPEN"
              THEN MarginNeeded(trs[k].entry_price, trs[k].quantity, trs[k].instrument)
                   + trs[k].est_cost
              ELSE 0])

\* C1: capital is never over-committed: the margin plus the recorded entry
\* cost of all OPEN trades together never exceeds the current capital.
C1_CapitalNeverOverCommitted == Committed(trades) <= capital

\* C2: across check_trailing_stops the stop stored for an OPEN BUY trade,
\* i.e. the value after the rounding to 2 decimals, never decreases.
C2_StoredStopNeverDecreases ==
    [][last'.op = "check_trailing_stops" =>
         \A k \in 1..Len(trades) :
            (trades[k].status = "OPEN" /\ trades[k].direction = "BUY")
               => trades'[k].sl >= trades[k].sl]_vars

TsNewSl == ts_in.current_price - ts_in.atr * TrailMultiplier(ts_in.regime)

\* C3: update_trailing_stop returns the greater of current_stop and
\* current_price - atr x multiplier, so the result is never below
\* current_stop and the stops fed back call after call never decrease.
C3_TrailingStopIsMax ==
    ts_in # <<>> =>
        /\ ts_in.result >= ts_in.current_sl
        /\ ts_in.result >= TsNewSl
        /\ ts_in.result \in {ts_in.current_sl, TsNewSl}
        /\ ts_stop = ts_in.result

\* a falling price met a stop that earlier calls had raised, and left it
C3_Witness ==
    /\ ts_in # <<>>
    /\ ts_in.current_sl > 98003
    /\ TsNewSl < ts_in.current_sl
    /\ ts_stop = ts_in.current_sl

AllAvoid(out) ==
    out.st.verdict = "AVOID" /\ out.mt.verdict = "AVOID" /\ out.lt.verdict = "AVOID"

\* C4: Altman veto dominance: an Altman Z below 1.8 in a sector that is not
\* capital-intensive makes the verdict of every horizon AVOID.
C4_AltmanVetoDominates ==
    (rs_out # <<>> /\ rs_in.fundamentals.altman_z_score < 180
        /\ ~CapitalIntensive(rs_in.sector))
      => AllAvoid(rs_out)

\* C5: Beneish veto: a Beneish M above -1.78 makes the verdict of every
\* horizon AVOID, whatever the sector and the other scores.
C5_BeneishVeto ==
    (rs_out # <<>> /\ rs_in.fundamentals.beneish_m_score > -178)
      => AllAvoid(rs_out)

\* C6: a CLOSED trade is immutable: every step keeps it in the log with all
\* its fields (so it stays CLOSED and keeps its pnl), and a close_trade on
\* its id leaves the capital alone.
C6_ClosedTradeImmutable ==
    [][\A k \in ClosedIdx(trades) :
          /\ \E j \in 1..Len(trades') : trades'[j] = trades[k]
          /\ \A j \in 1..Len(trades') :
                trades'[j].id = trades[k].id => trades'[j] = trades[k]
          /\ (last'.op = "close_trade" /\ last'.id = trades[k].id)
                => capital' = capital]_vars

\* close_trade was called again on a trade that is already CLOSED
C6_Witness ==
    /\ last.op = "close_trade"
    /\ last.status = "False"
    /\ \E k \in ClosedIdx(trades) : trades[k].id = last.id

RoundTripCost(t) ==
    t.est_cost + calculate_transaction_costs(t.entry_price, t.quantity,
                                             OtherSide(t.direction), t.instrument)

\* C10: closing an admitted order at its entry price records
\* pnl = -(entry_cost + exit_cost), the exit cost being the cost model with
\* the direction reversed, and the capital falls by that amount.
C10_RoundTripLosesCosts ==
    [][\A k \in OpenIdx(trades) :
          (/\ k <= Len(trades')
           /\ trades'[k].id = trades[k].id
           /\ trades'[k].status = "CLOSED"
           /\ trades'[k].exit_price = trades[k].entry_price)
          => /\ trades'[k].pnl = -RoundTripCost(trades[k])
             /\ capital' = capital - RoundTripCost(trades[k])]_vars

\* a short position in a non-equity instrument was closed at its entry price
C10_Witness ==
    /\ last.op = "close_trade"
    /\ last.status = "True"
    /\ \E k \in ClosedIdx(trades) :
          /\ trades[k].id = last.id
          /\ trades[k].exit_price = trades[k].entry_price
          /\ trades[k].direction = "SELL"
          /\ ~HasEquity(trades[k].instrument)
          /\ trades[k].pnl < 0
          /\ capital = InitialCapital + trades[k].pnl

Done(p, op) == procs[p].pc = "done" /\ procs[p].op = op

InLog(t) == \E k \in 1..Len(trades) : trades[k] = t

Need(t) == MarginNeeded(t.entry_price, t.quantity, t.instrument) + t.est_cost

\* C7: two place_order calls that ran concurrently and both returned
\* success leave both returned trades in the trade log, and together they
\* commit no more than the available capital.
C7_ConcurrentPlaceOrdersSerialized ==
    \A p \in DOMAIN procs, q \in DOMAIN procs :
        (/\ p # q
         /\ Done(p, "place_order") /\ procs[p].status = "success"
         /\ Done(q, "place_order") /\ procs[q].status = "success")
        => /\ InLog(procs[p].trade)
           /\ InLog(procs[q].trade)
           /\ Need(procs[p].trade) + Need(procs[q].trade) <= capital

\* the handlers as functions of the store, for the serial orders
SerialClose(st, trade_id, exit_price) ==
    LET k == FindOpen(st.trades, trade_id)
    IN  IF k = 0 THEN st
        ELSE [capital |-> st.capital + NetPnl(st.trades[k], exit_price),
              trades |-> CloseAt(st.trades, k, exit_price)]

SerialTrail(st, current_prices) ==
    [st EXCEPT !.trades = TrailApply(st.trades, current_prices)]

\* C8: close_trade(id) and check_trailing_stops run concurrently end in the
\* state of one of their two serial orders: the closed trade stays CLOSED
\* with its pnl and no stop update of another trade is lost.
C8_CloseAndTrailSerializable ==
    \A p \in DOMAIN procs, q \in DOMAIN procs :
        (Done(p, "close_trade") /\ Done(q, "check_trailing_stops"))
        => [capital |-> capital, trades |-> trades] \in
             {SerialTrail(SerialClose(start, procs[p].trade_id, procs[p].exit_price),
                          procs[q].current_prices),
              SerialClose(SerialTrail(start, procs[q].current_prices),
                          procs[p].trade_id, procs[p].exit_price)}

\* C9: after concurrent close_trade calls the capital has grown by exactly
\* the net PnL of the trades that went from OPEN to CLOSED, each once.
C9_CapitalLedgerAtomic ==
    \A p \in DOMAIN procs, q \in DOMAIN procs :
        (p # q /\ Done(p, "close_trade") /\ Done(q, "close_trade"))
        => capital = start.capital
                     + SumSeq([k \in 1..Len(start.trades) |->
                                 IF start.trades[k].status = "OPEN"
                                    /\ trades[k].status = "CLOSED"
                                 THEN NetPnl(start.trades[k], trades[k].exit_price)
                                 ELSE 0])

IsSizeCall == rm_in # <<>> /\ rm_in.fn = "calculate_position_size"
IsAllowCall == rm_in # <<>> /\ rm_in.fn = "check_entry_allowance"

\* C11: calculate_position_size returns 0 when the entry price equals the
\* stop price, and otherwise floor((capital x 1%) / |entry - stop|) raised to
\* a minimum of 1 share.
C11_PositionSizeFormula ==
    IsSizeCall =>
        rm_out = IF rm_in.price = rm_in.sl THEN 0
                 ELSE LET floor == rm_in.capital \div (100 * Abs(rm_in.price - rm_in.sl))
                      IN  IF floor < 1 THEN 1 ELSE floor

\* capital 100000, entry 100, stop 90 gave 100 shares
C11_Witness ==
    /\ IsSizeCall
    /\ rm_in.capital = 100000000 /\ rm_in.price = 100000 /\ rm_in.sl = 90000
    /\ rm_out = 100

\* C12: for price # stop the quantity keeps the money at risk within the
\* per-trade budget: quantity x |price - stop| <= capital x 1% + 1.
C12_RiskWithinBudget ==
    (IsSizeCall /\ rm_in.price # rm_in.sl) =>
        rm_out * Abs(rm_in.price - rm_in.sl) * 100 <= rm_in.capital + 100000

\* C13: check_entry_allowance blocks with the drawdown reason exactly when
\* (start - current) / start exceeds 5%, otherwise with the daily-loss reason
\* exactly when daily_pnl < -(current x 2%), otherwise allows with "OK"; with
\* both limits breached the drawdown reason is returned.
C13_EntryAllowanceOrder ==
    IsAllowCall =>
        LET dd_breach == (rm_in.start_capital - rm_in.current_capital) * 100
                            > MaxDdPct * rm_in.start_capital
            daily_breach == rm_in.daily_pnl * 100
                            < -(rm_in.current_capital * DailyLimitPct)
        IN  /\ dd_breach <=> rm_out = [allowed |-> FALSE, reason |-> "Total Drawdown Breach"]
            /\ (~dd_breach /\ daily_breach)
                 <=> rm_out = [allowed |-> FALSE, reason |-> "Daily Loss Limit Hit"]
            /\ (~dd_breach /\ ~daily_breach) <=> rm_out = [allowed |-> TRUE, reason |-> "OK"]

\* both limits were breached and the drawdown reason came back
C13_Witness ==
    /\ IsAllowCall
    /\ rm_in.current_capital = 9000000 /\ rm_in.start_capital = 10000000
    /\ rm_in.daily_pnl = -2500000
    /\ rm_out.reason = "Total Drawdown Breach"

RejectReasons ==
    {"Bot is inactive", "Risk Block", "Calculated Quantity is 0", "Insufficient Fund"}

\* C14: every rejected place_order (inactive, risk block, zero quantity,
\* insufficient funds) returns a result tagged failed with a non-empty
\* reason and leaves the trade log, the capital and the active flag as they
\* were: a rejected order never becomes a trade.
C14_RejectedOrderLeavesNoTrace ==
    [][last'.op = "place_order" =>
          /\ last'.status \in {"success", "failed"}
          /\ last'.status = "failed" =>
                /\ last'.reason \in RejectReasons
                /\ trades' = trades
                /\ capital' = capital
                /\ active' = active
          /\ last'.status = "success" => Len(trades') = Len(trades) + 1]_vars

\* an order was refused for lack of funds while an earlier trade was OPEN
C14_Witness ==
    /\ last.op = "place_order"
    /\ last.status = "failed"
    /\ last.reason = "Insufficient Fund"
    /\ OpenIdx(trades) # {}

\* C15: when a store read or write fails (or the stored log is unreadable)
\* during place_order or close_trade, capital and trade log stay mutually
\* consistent: the log is not replaced by one that lost earlier trades, and
\* the capital is not credited for a trade that is still recorded as OPEN.
C15_StoreFailureKeepsLedger ==
    [][fault' > fault =>
          /\ \A k \in 1..Len(trades) :
                \E j \in 1..Len(trades') : trades'[j].id = trades[k].id
          /\ capital' # capital =>
                \E k \in OpenIdx(trades) :
                    trades'[k].id = trades[k].id /\ trades'[k].status = "CLOSED"]_vars

Stops(trs) == [k \in 1..Len(trs) |-> trs[k].sl]

\* the log that check_trailing_stops leaves in the store
TrailOnce(trs, current_prices) ==
    IF TrailUpdated(trs, current_prices) THEN TrailApply(trs, current_prices) ELSE trs

\* C16: check_trailing_stops is idempotent: after a call with a map, a
\* second call with the same map leaves every trade's stop at its value
\* after the first call.
C16_TrailingStopsIdempotent ==
    [][last'.op = "check_trailing_stops" =>
          \A m \in PriceMaps :
             trades' = TrailOnce(trades, m)
                => Stops(TrailOnce(trades', m)) = Stops(trades')]_vars

\* the first call stored a stop rounded below the new level, so that the
\* second call with the same map passes the test again and writes
C16_Witness ==
    /\ last.op = "check_trailing_stops"
    /\ \E k \in OpenIdx(trades) : trades[k].direction = "BUY" /\ trades[k].sl = 98000
    /\ \E m \in PriceMaps : TrailUpdated(trades, m) /\ TrailApply(trades, m) = trades

Horizons == {"st", "mt", "lt"}

VerdictRank(v) ==
    IF v = "STRONG BUY" THEN 5 ELSE IF v = "BUY" THEN 4 ELSE IF v = "ACCUMULATE" THEN 3
    ELSE IF v = "HOLD" THEN 2 ELSE IF v = "SELL" THEN 1 ELSE 0

\* C17: sector downgrade: with sector_status BEARISH no horizon's final
\* verdict is BUY or STRONG BUY (what would be BUY or STRONG BUY becomes
\* ACCUMULATE or HOLD), and the sector rule never upgrades a verdict: no
\* horizon's verdict ranks above the one the same inputs get when the
\* sector check does not fire.
C17_SectorDowngrade ==
    rs_out # <<>> =>
        LET plain == analyze_stock([rs_in EXCEPT !.sector_status = "NEUTRAL"])
        IN  \A h \in Horizons :
               /\ rs_in.sector_status = "BEARISH"
                     => /\ rs_out[h].verdict \notin {"BUY", "STRONG BUY"}
                        /\ plain[h].verdict \in {"BUY", "STRONG BUY"}
                              => rs_out[h].verdict \in {"ACCUMULATE", "HOLD"}
               /\ VerdictRank(rs_out[h].verdict) <= VerdictRank(plain[h].verdict)

\* atr of analyze_stock: latest.get('atr', current_price * 0.02)
RuleAtr(in) == GetOr(in.latest.atr, (in.latest.close * 2) \div 100)

\* neither veto of the specification applies
NoVeto(in) ==
    /\ in.fundamentals.altman_z_score >= 180 \/ CapitalIntensive(in.sector)
    /\ in.fundamentals.beneish_m_score <= -178

\* the condition of the momentum / turnaround override of the specification
MomentumOverride(in) ==
    /\ in.latest.close > in.latest.ema_50
    /\ in.sentiment_score > 10
    /\ in.forecast_df < in.latest.close
    /\ NoVeto(in)

\* C18: verdict finalization with target >= price and no veto, sector
\* downgrade or momentum override: STRONG BUY when upside > 15% and
\* score >= 4, else BUY when upside > 5% and score >= 3.5, else ACCUMULATE
\* when score >= 2, else HOLD.
C18_VerdictFinalization ==
    (rs_out # <<>> /\ NoVeto(rs_in) /\ rs_in.sector_status # "BEARISH"
        /\ ~MomentumOverride(rs_in))
      => \A h \in Horizons :
            LET price == rs_in.latest.close
                gain == rs_out[h].target_conservative - price
            IN  gain >= 0 =>
                   rs_out[h].verdict =
                      IF gain * 100 > 15 * price /\ rs_out.score >= 400 THEN "STRONG BUY"
                      ELSE IF gain * 100 > 5 * price /\ rs_out.score >= 350 THEN "BUY"
                      ELSE IF rs_out.score >= 200 THEN "ACCUMULATE"
                      ELSE "HOLD"

\* C19: momentum override: price above the 50-period EMA, sentiment > 0.1,
\* nearest-horizon forecast below the price and no veto make each horizon's
\* target current_price + atr x 3 / 8 / 15 (short / mid / long) and the
\* verdict BUY when the score is >= 2, else ACCUMULATE.
C19_MomentumOverride ==
    (rs_out # <<>> /\ MomentumOverride(rs_in))
      => LET price == rs_in.latest.close
             atr == RuleAtr(rs_in)
             verdict == IF rs_out.score >= 200 THEN "BUY" ELSE "ACCUMULATE"
         IN  /\ rs_out.st.target_conservative = price + atr * 3
             /\ rs_out.mt.target_conservative = price + atr * 8
             /\ rs_out.lt.target_conservative = price + atr * 15
             /\ \A h \in Horizons : rs_out[h].verdict = verdict

\* C20: for every input (ATR 0 included) and every horizon, a verdict other
\* than SELL has stop_loss < current price < target, and a SELL or AVOID
\* verdict has no target above the current price.
C20_StopPriceTargetOrdered ==
    rs_out # <<>> =>
        \A h \in Horizons :
            LET price == rs_in.latest.close
                r == rs_out[h]
            IN  /\ r.verdict \notin {"SELL", "AVOID"}
                      => (r.stop_loss < price /\ price < r.target_conservative)
                /\ r.verdict \in {"SELL", "AVOID"}
                      => (r.target_conservative <= price /\ r.target_aggressive <= price)


\* C21: the risk/reward reported per horizon is |aggressive target - price| /
\* risk rounded to two decimals, with risk = |price - stop| (5% of the price
\* when the stop equals the price), conservative target = price + 2 x risk
\* and aggressive target = price + 3.5 x risk, signs inverted for SELL.
C21_RiskRewardFromAggressiveTarget ==
    rs_out # <<>> =>
        \A h \in Horizons :
            LET price == rs_in.latest.close
                r == rs_out[h]
                risk == IF r.stop_loss = price THEN (price * 5) \div 100
                        ELSE Abs(price - r.stop_loss)
                sign == IF r.verdict = "SELL" THEN -1 ELSE 1
            IN  /\ r.target_conservative = Round2(price + sign * 2 * risk)
                /\ r.target_aggressive = RoundTo(price * 10 + sign * 35 * risk, 100) \div 10
                /\ r.risk_reward
                      = RoundTo(Abs(r.target_aggressive - price) * 100, risk) \div risk


\* C22: bot lifecycle: the active flag is false on first initialisation;
\* start_bot leaves the status active and stop_bot inactive, and no other
\* operation changes the flag, so get_status().active reflects the most
\* recent of start_bot / stop_bot; while inactive place_order fails and
\* creates no trade; start_bot and stop_bot change neither the capital nor
\* the trade log.
C22_BotLifecycle ==
    /\ get_status(active, capital, trades).active = FALSE
    /\ [][LET status == get_status(active', capital', trades')
          IN  /\ last'.op = "start_bot" => status.active = TRUE
              /\ last'.op = "stop_bot" => status.active = FALSE
              /\ last'.op \notin {"start_bot", "stop_bot"}
                    => status.active = get_status(active, capital, trades).active
              /\ last'.op \in {"start_bot", "stop_bot"}
                    => capital' = capital /\ trades' = trades
              /\ (last'.op = "place_order" /\ ~active)
                    => /\ trades' = trades
                       /\ last'.status = "failed"
                       /\ last'.reason = "Bot is inactive"]_vars

\* an order refused by a bot that traded and was stopped
C22_Witness ==
    /\ last.op = "place_order"
    /\ last.reason = "Bot is inactive"
    /\ ~active
    /\ OpenIdx(trades) # {}


\* the four gates of place_order, each on its own, for order o on the store
GateInactive == ~active
GateRiskBlock ==
    ~check_entry_allowance(capital, StartCap,
                           get_status(active, capital, trades).daily_pnl).allowed
GateQuantity(o) == calculate_position_size(capital, o.price, o.sl)
GateNoQuantity(o) == GateQuantity(o) < 1
GateUnderfunded(o) ==
    LET notional == o.price * GateQuantity(o)
        cost == calculate_transaction_costs(o.price, GateQuantity(o), o.direction,
                                            o.instrument)
    IN  IF HasIntraday(o.instrument)
        THEN notional * 2 + cost * 10 > capital * 10
        ELSE notional + cost > capital

\* C23: place_order evaluates its gates in the order inactive, entry
\* allowance, position size below 1, margin plus cost above capital, and
\* the reason it returns is that of the first gate that fails (an order
\* placed while inactive and under-funded is rejected as inactive); it
\* succeeds when none fails.
C23_FirstFailingGate ==
    [][last'.op = "place_order" =>
          LET o == rm_in'.order
          IN  last'.reason =
                 IF GateInactive THEN "Bot is inactive"
                 ELSE IF GateRiskBlock THEN "Risk Block"
                 ELSE IF GateNoQuantity(o) THEN "Calculated Quantity is 0"
                 ELSE IF GateUnderfunded(o) THEN "Insufficient Fund"
                 ELSE ""]_vars

\* an order placed while inactive that the capital could not fund either
C23_Witness ==
    /\ last.op = "place_order"
    /\ last.reason = "Bot is inactive"
    /\ GateInactive
    /\ GateUnderfunded(rm_in.order)
    /\ ~GateNoQuantity(rm_in.order)

\* C26: every trade place_order creates met all admission conditions at its
\* creation: the system active, check_entry_allowance allowed, a quantity of
\* at least 1 with price # stop, margin + estimated cost within the capital
\* (margin the full notional, 20% of it for intraday); it is created OPEN at
\* the head of the log.
C26_AdmittedTradeMetAllGates ==
    [][(last'.op = "place_order" /\ last'.status = "success") =>
          LET o == rm_in'.order
              t == Head(trades')
          IN  /\ ~GateInactive
              /\ ~GateRiskBlock
              /\ GateQuantity(o) >= 1
              /\ o.price # o.sl
              /\ ~GateUnderfunded(o)
              /\ trades' = <<t>> \o trades
              /\ t.status = "OPEN"
              /\ t.id = last'.id
              /\ t.quantity = GateQuantity(o)
              /\ <<t.ticker, t.direction, t.entry_price, t.sl, t.instrument>>
                    = <<o.ticker, o.direction, o.price, o.sl, o.instrument>>]_vars

\* an intraday order admitted on its 20% margin after an earlier trade
C26_Witness ==
    /\ last.op = "place_order"
    /\ last.status = "success"
    /\ Len(trades) = 2
    /\ Head(trades).id = last.id
    /\ Head(trades).status = "OPEN"
    /\ HasIntraday(Head(trades).instrument)
    /\ rm_in.order.instrument = Head(trades).instrument


\* C24: ledger conservation: after any sequence of OMS operations run one at
\* a time the capital equals the initial capital plus the sum of the pnl
\* recorded on all CLOSED trades; close_trade adds to the capital exactly the
\* pnl it records on the trade, and no other operation changes the capital.
C24_LedgerConservation ==
    /\ [](capital = InitialCapital + get_status(active, capital, trades).daily_pnl)
    /\ [][/\ last'.op # "close_trade" => capital' = capital
          /\ (last'.op = "close_trade" /\ last'.status = "True")
                => \E k \in ClosedIdx(trades') :
                      /\ trades'[k].id = last'.id
                      /\ capital' = capital + trades'[k].pnl]_vars


\* C25: check_trailing_stops changes nothing except the stop of OPEN BUY
\* trades whose ticker has a known current price and ATR in current_prices:
\* CLOSED trades, SELL trades, trades whose ticker is absent or whose ATR is
\* not supplied, every other field of every trade, the capital and the
\* active flag are left unchanged.
C25_TrailingStopsFrame ==
    [][\A current_prices \in PriceMaps :
          check_trailing_stops(current_prices) =>
             /\ capital' = capital
             /\ active' = active
             /\ Len(trades') = Len(trades)
             /\ \A k \in 1..Len(trades) :
                   /\ [trades'[k] EXCEPT !.sl = trades[k].sl] = trades[k]
                   /\ trades'[k].sl # trades[k].sl
                         => /\ trades[k].status = "OPEN"
                            /\ trades[k].direction = "BUY"
                            /\ trades[k].ticker \in DOMAIN current_prices
                            /\ current_prices[trades[k].ticker].atr # <<>>]_vars


\* C27: the trailing-stop multiplier is regime-dependent for the regimes the
\* system produces: for every label the market-regime detector can return,
\* update_trailing_stop applies 1.0 when the label is a crash / high-
\* volatility one, 3.0 when it is the confirmed bull-trend one and 2.0
\* otherwise, the detector's vocabulary being the one update_trailing_stop
\* and the strategy registry test for.
C27_DetectorRegimeMultiplier ==
    (ts_in # <<>> /\ ts_in.regime \in DetectorLabels) =>
        LET multiplier ==
                IF ts_in.regime \in {"BEAR_CRASH", "HIGH_VOL_EVENT", "HIGH_VOL_CRASH",
                                     "VOLATILE_COMMODITY"} THEN 1
                ELSE IF ts_in.regime \in {"BULL_STABLE", "BULL_TREND"} THEN 3
                ELSE 2
        IN  /\ ts_in.regime \in RegistryRegimes
            /\ ts_in.result
                  = Max(ts_in.current_sl, ts_in.current_price - ts_in.atr * multiplier)


\* the verdict the score alone gives, scores in hundredths
ScoreLadder(score) ==
    IF score >= 7500 THEN "STRONG BUY"
    ELSE IF score >= 5000 THEN "BUY"
    ELSE IF score >= 3000 THEN "ACCUMULATE"
    ELSE IF score >= 2000 THEN "HOLD"
    ELSE "SELL"

\* the horizon's verdict is the base verdict or lies between it and HOLD
TowardHold(verdict, base) ==
    /\ VerdictRank(verdict) >= (IF VerdictRank(base) < 2 THEN VerdictRank(base) ELSE 2)
    /\ VerdictRank(verdict) <= Max(VerdictRank(base), 2)

\* the horizon's trend and the sector leave the base verdict alone
VerdictKept(trend, base, sector_status) ==
    /\ ~(sector_status = "BEARISH" /\ base \in {"BUY", "STRONG BUY"})
    /\ ~(trend = "DOWN" /\ base \in {"BUY", "STRONG BUY"})
    /\ ~(trend = "UP" /\ base = "SELL")

\* C28 as stated: the base verdict is a total function of the score (>= 75
\* STRONG BUY, 50 to 75 BUY, 30 to 50 ACCUMULATE, 20 to 30 HOLD, below 20
\* SELL), and each horizon's final verdict is the base verdict or a downgrade
\* of it toward HOLD, never a more bullish one.
C28_NeverMoreBullishThanBase ==
    rs_out # <<>> =>
        \A h \in Horizons :
            LET base == ScoreLadder(rs_out.score)
                verdict == rs_out[h].verdict
            IN  /\ VerdictKept(rs_out[h].trend, base, rs_in.sector_status) => verdict = base
                /\ TowardHold(verdict, base)
                /\ VerdictRank(verdict) <= VerdictRank(base)

\* C28: the base verdict is a total function of the score (>= 75 STRONG BUY,
\* 50 to 75 BUY, 30 to 50 ACCUMULATE, 20 to 30 HOLD, below 20 SELL), and each
\* horizon's final verdict is the base verdict or one moved toward HOLD: a
\* BUY or STRONG BUY lowered to ACCUMULATE or HOLD, a SELL raised to HOLD on
\* a horizon whose trend is up; no other verdict is more bullish than the
\* base verdict.
C28_VerdictBaseOrTowardHold ==
    rs_out # <<>> =>
        \A h \in Horizons :
            LET base == ScoreLadder(rs_out.score)
                verdict == rs_out[h].verdict
            IN  /\ VerdictKept(rs_out[h].trend, base, rs_in.sector_status) => verdict = base
                /\ TowardHold(verdict, base)
                /\ VerdictRank(verdict) > VerdictRank(base)
                      => (base = "SELL" /\ verdict = "HOLD" /\ rs_out[h].trend = "UP")

\* a score of exactly 75 in a neutral sector: STRONG BUY on the rising short
\* horizon, HOLD on the falling long one
C28_Witness ==
    /\ rs_out # <<>>
    /\ rs_out.score = 7500
    /\ rs_in.sector_status = "NEUTRAL"
    /\ rs_out.st.trend = "UP" /\ rs_out.st.verdict = "STRONG BUY"
    /\ rs_out.lt.trend = "DOWN" /\ rs_out.lt.verdict = "HOLD"


\* no position is open and check_entry_allowance refuses new entries
RiskBlocked == OpenIdx(trades) = {} /\ GateRiskBlock

\* C29: the risk block is absorbing once no position is open: the daily-loss
\* figure is the sum of the pnl of all CLOSED trades and is never reset, and
\* the drawdown baseline is fixed, so from a state with no OPEN trade in
\* which check_entry_allowance fails every OMS operation leads to such a
\* state again and no place_order succeeds.
C29_RiskBlockAbsorbing ==
    [][RiskBlocked =>
          /\ RiskBlocked'
          /\ ~(last'.op = "place_order" /\ last'.status = "success")
          /\ capital' = capital
          /\ get_status(active', capital', trades').daily_pnl
                = get_status(active, capital, trades).daily_pnl]_vars

\* an active bot, every position closed, refusing an order for the risk block
C29_Witness ==
    /\ RiskBlocked
    /\ active
    /\ ClosedIdx(trades) # {}
    /\ Len(trades) < MaxTrades
    /\ last.op = "place_order"
    /\ last.reason = "Risk Block"


\* C30: nightly pipeline ordering: astra.run_nightly_update is sent strictly
\* after astra.run_sector_update, at 1:30 AM against 1:00 AM, so on every
\* night the sector update has had its 30 minutes before the stocks are
\* analysed.
C30_NightlyAfterSector ==
    \A i \in 1..Len(astra_q) :
        /\ astra_q[i].task = "astra.run_sector_update" => astra_q[i].at % (24 * 60) = 60
        /\ astra_q[i].task = "astra.run_nightly_update"
              => /\ astra_q[i].at % (24 * 60) = 90
                 /\ \E j \in 1..(i - 1) :
                       /\ astra_q[j].task = "astra.run_sector_update"
                       /\ astra_q[j].at + 30 = astra_q[i].at

====
